---- MODULE Spec2Model ----
\* bsonsplit (src/src/main.rs): reads one file holding back-to-back BSON
\* documents and deals the documents round-robin into `split` output files,
\* each written through a BufWriter that is flushed every AUTO_FLUSH writes
\* and once more at the end.
\*
\* The state is the state of one run of main(): the command line (split), the
\* input file and the reader's cursor, the output files on disk, the
\* BufWriters placed over them, the locals of the loop (cycle, writes, the
\* document just decoded), the error main returns and what was printed.
\* Bytes are numbers 0..255, files and buffers are sequences of bytes.
EXTENDS Integers, Sequences, FiniteSets, TLC

VARIABLES
    split,      \* opt.split                                   (main.rs:17)
    input,      \* the bytes of the file at opt.path
    opened,     \* the input file has been opened              (main.rs:74)
    pos,        \* bytes of the input consumed by the reader   (main.rs:75)
    files,      \* files[i]: bytes on disk of the i-th created output file
    output,     \* output[i]: bytes held in the i-th BufWriter (main.rs:87)
    prefix,     \* the file stem of opt.path, "" before it is derived (main.rs:77)
    created,    \* the names of the output files on disk, in creation order
    paths,      \* the file names create_files returned to main (main.rs:84)
    cycle,      \* the next index the cycle iterator yields    (main.rs:92)
    writes,     \* successful document writes                  (main.rs:93)
    doc,        \* the document decoded by this iteration      (main.rs:96)
    pc,         \* the statement main() is at
    err,        \* the error main() ends with, "none" if none
    printed,    \* the lines printed on standard output        (main.rs:112)
    sinceFlush, \* history: document writes since the last flush of all sinks
    failedAt,   \* history: the index of the file File::create failed for, 0 if none
    given,      \* history: the documents and the tail the input was made of
    faults      \* history: the kinds of operation the environment has failed

vars == <<split, input, opened, pos, files, output, prefix, created, paths,
          cycle, writes, doc, pc, err, printed, sinceFlush, failedAt, given,
          faults>>

-----------------------------------------------------------------------------
\* Bounds of the model.

MaxSplit == 2       \* split ranges over 0..MaxSplit
MaxDocs == 3        \* the input holds at most MaxDocs complete documents
MaxShort == 1       \* a failing write to a file first writes 0..MaxShort bytes
BufCapacity == 10   \* capacity of a BufWriter (std's default is 8 KiB)
AUTO_FLUSH == 2     \* the flush period (main.rs:10 sets 100_000)

-----------------------------------------------------------------------------
\* Sequences of bytes.

Take(s, n) == IF n >= Len(s) THEN s ELSE SubSeq(s, 1, n)
Drop(s, n) == IF n >= Len(s) THEN <<>> ELSE SubSeq(s, n + 1, Len(s))
IsPrefix(s, t) == Len(s) <= Len(t) /\ Take(t, Len(s)) = s

RECURSIVE Flatten(_)
Flatten(ss) == IF ss = <<>> THEN <<>> ELSE Head(ss) \o Flatten(Tail(ss))

\* i32 <-> 4 little-endian bytes, two's complement (read_i32 / write_i32 of
\* the bson crate). \div rounds down and % is never negative.
ToLE32(n) ==
    <<n % 256, (n \div 256) % 256, (n \div 65536) % 256, (n \div 16777216) % 256>>

FromLE32(b) ==
    b[1] + 256 * b[2] + 65536 * b[3]
         + 16777216 * (IF b[4] >= 128 THEN b[4] - 256 ELSE b[4])

-----------------------------------------------------------------------------
\* The bson crate's Document, as far as the run touches it: an ordered list
\* of elements [key, val], val one of "null", "true", "false".

\* Element types: 10 (0x0A) is null, 8 (0x08) is boolean.

\* Document::insert: a key already present keeps its place and gets the value.
Insert(d, key, val) ==
    IF \E i \in 1..Len(d) : d[i].key = key
    THEN [i \in 1..Len(d) |-> IF d[i].key = key THEN [key |-> key, val |-> val] ELSE d[i]]
    ELSE Append(d, [key |-> key, val |-> val])

\* Index of the first 0 byte of c at or after p, 0 if there is none.
RECURSIVE FindNul(_, _)
FindNul(c, p) ==
    IF p > Len(c) THEN 0 ELSE IF c[p] = 0 THEN p ELSE FindNul(c, p + 1)

\* The element loop of Document::from_reader over the body c of a document
\* (the bytes after the length prefix), reading at index p. A read past the
\* end of the body is the cursor's UnexpectedEof; the body must end right
\* after the terminating 0 tag.
RECURSIVE ParseElems(_, _, _)
ParseElems(c, p, acc) ==
    IF p > Len(c) THEN [kind |-> "UnexpectedEof", doc |-> <<>>]
    ELSE IF c[p] = 0
    THEN IF p = Len(c) THEN [kind |-> "Ok", doc |-> acc]
         ELSE [kind |-> "BsonError", doc |-> <<>>]
    ELSE LET q == FindNul(c, p + 1) IN
         IF q = 0 THEN [kind |-> "UnexpectedEof", doc |-> <<>>]
         ELSE LET key == SubSeq(c, p + 1, q - 1) IN
              IF c[p] = 10
              THEN ParseElems(c, q + 1, Insert(acc, key, "null"))
              ELSE IF c[p] = 8
              THEN IF q + 1 > Len(c) THEN [kind |-> "UnexpectedEof", doc |-> <<>>]
                   ELSE ParseElems(c, q + 2,
                            Insert(acc, key, IF c[q + 1] # 0 THEN "true" ELSE "false"))
              ELSE [kind |-> "BsonError", doc |-> <<>>]

\* Document::from_reader(&mut f) with p bytes of s already consumed
\* (main.rs:96). The 4-byte length prefix and then the rest of the document
\* are read with read_exact, which reports UnexpectedEof whenever the stream
\* ends before the bytes asked for, at a document boundary or not.
\* kind: "Ok" (doc decoded), "UnexpectedEof" (IoError of that kind),
\* "BsonError" (any other bson::de::Error); pos: the cursor afterwards.
FromReader(s, p) ==
    IF Len(s) - p < 4
    THEN [kind |-> "UnexpectedEof", doc |-> <<>>, pos |-> Len(s)]
    ELSE LET length == FromLE32(SubSeq(s, p + 1, p + 4)) IN
         IF length < 5
         THEN [kind |-> "BsonError", doc |-> <<>>, pos |-> p + 4]
         ELSE IF Len(s) - p < length
         THEN [kind |-> "UnexpectedEof", doc |-> <<>>, pos |-> Len(s)]
         ELSE LET r == ParseElems(SubSeq(s, p + 5, p + length), 1, <<>>)
              IN  [kind |-> r.kind, doc |-> r.doc, pos |-> p + length]

\* Mutant of process_doc: UnexpectedEof is returned as an error like any
\* other io::Error.
process_doc_eof_is_error(r, ioError) ==
    IF ioError THEN "IO error"
    ELSE IF r.kind = "Ok" THEN "doc"
    ELSE IF r.kind = "UnexpectedEof" THEN "IO error"
    ELSE "BSON error"

\* Mutant of process_doc: every error of the decoder ends the stream.
process_doc_swallow(r, ioError) ==
    IF ~ioError /\ r.kind = "Ok" THEN "doc" ELSE "none"

\* process_doc (main.rs:30-44): "doc" = Ok(Some(doc)), "none" = Ok(None),
\* otherwise the context of the error returned. ioError: the read failed
\* with an io::Error of a kind other than UnexpectedEof.
process_doc(r, ioError) ==
    IF ioError THEN "IO error"
    ELSE IF r.kind = "Ok" THEN "doc"
    ELSE IF r.kind = "UnexpectedEof" THEN "none"
    ELSE "BSON error"

\* The elements of a document as serialize_bson writes them.
RECURSIVE EncodeElems(_)
EncodeElems(d) ==
    IF d = <<>> THEN <<>>
    ELSE LET e == Head(d) IN
         (IF e.val = "null" THEN <<10>> \o e.key \o <<0>>
          ELSE <<8>> \o e.key \o <<0>> \o <<IF e.val = "true" THEN 1 ELSE 0>>)
         \o EncodeElems(Tail(d))

\* The three pieces Document::to_writer hands to the writer, in order:
\* the length prefix, the elements, the terminator.
Pieces(d) ==
    LET body == EncodeElems(d)
    IN  <<ToLE32(Len(body) + 5), body, <<0>>>>

-----------------------------------------------------------------------------
\* One output sink while it is written: st.file, the bytes of the File on
\* disk; st.buf, the bytes held by the BufWriter over it. The writes to the
\* File made by one call are counted in st.nw; the fault <<n, k>> of a call
\* makes its n-th write to the File fail after k of the bytes were written
\* (n = 0: no write fails). st.ok is FALSE once the call has failed, st.hit
\* is TRUE once the fault has happened, with a k its write allows.

Sink(buf, file) == [buf |-> buf, file |-> file, ok |-> TRUE, nw |-> 0, hit |-> FALSE]

\* <&File as Write>::write_all(data).
FileWriteAll(st, data, n, k) ==
    IF st.nw + 1 = n
    THEN [st EXCEPT !.file = @ \o Take(data, k), !.nw = @ + 1,
                    !.ok = FALSE, !.hit = k < Len(data)]
    ELSE [st EXCEPT !.file = @ \o data, !.nw = @ + 1]

\* Mutant of FlushBuf: the bytes written stay in the buffer.
FlushBuf_keep(st, n, k) ==
    IF st.buf = <<>> THEN st ELSE FileWriteAll(st, st.buf, n, k)

\* BufWriter::flush_buf: writes the buffer to the File; the bytes written
\* leave the buffer also when the write fails. An empty buffer is no write.
FlushBuf(st, n, k) ==
    IF st.buf = <<>> THEN st
    ELSE LET r == FileWriteAll(st, st.buf, n, k)
         IN  [r EXCEPT !.buf = IF r.ok THEN <<>> ELSE Drop(st.buf, k)]

\* BufWriter::write_all(data): the buffer is flushed first when data does not
\* fit in what is left of it; data as long as the capacity goes straight to
\* the File, shorter data is appended to the buffer.
BufWriteAll(st, data, n, k) ==
    IF ~st.ok THEN st
    ELSE LET a == IF Len(st.buf) + Len(data) > BufCapacity
                  THEN FlushBuf(st, n, k) ELSE st
         IN  IF ~a.ok THEN a
             ELSE IF Len(data) >= BufCapacity THEN FileWriteAll(a, data, n, k)
             ELSE [a EXCEPT !.buf = @ \o data]

\* doc.to_writer(&mut buf) (main.rs:99): the pieces of the document are
\* written one after the other, the first failure ends the call.
to_writer(st, d, n, k) ==
    LET p == Pieces(d)
    IN  BufWriteAll(BufWriteAll(BufWriteAll(st, p[1], n, k), p[2], n, k), p[3], n, k)

\* The fault <<n, k>> is one the call r came out of can meet: none, or the
\* n-th write to the File happened and had more than k bytes to write.
Met(r, n) == IF n = 0 THEN r.ok ELSE r.hit

\* Mutant of flush_all: the call returns after the first sink.
flush_all_first(bufs, fls, i, k) ==
    LET r == [j \in 1..Len(bufs) |->
                 IF j > 1 THEN Sink(bufs[j], fls[j])
                 ELSE FlushBuf(Sink(bufs[j], fls[j]), IF j = i THEN 1 ELSE 0, k)]
    IN  [bufs |-> [j \in 1..Len(bufs) |-> r[j].buf],
         files |-> [j \in 1..Len(bufs) |-> r[j].file],
         ok |-> i = 0,
         met |-> i = 0 \/ (i = 1 /\ r[i].hit)]

\* Mutant of flush_all: the result of x.flush() is ignored.
flush_all_ignore(bufs, fls, i, k) ==
    LET r == [j \in 1..Len(bufs) |->
                 FlushBuf(Sink(bufs[j], fls[j]), IF j = i THEN 1 ELSE 0, k)]
    IN  [bufs |-> [j \in 1..Len(bufs) |-> r[j].buf],
         files |-> [j \in 1..Len(bufs) |-> r[j].file],
         ok |-> TRUE,
         met |-> i = 0 \/ r[i].hit]

\* flush_all (main.rs:63-68) over the buffers bufs and files fls: the sinks
\* are flushed in order and the first failure ends the call. The fault
\* <<i, k>> makes the flush of sink i fail after k bytes (i = 0: none fails).
flush_all(bufs, fls, i, k) ==
    LET r == [j \in 1..Len(bufs) |->
                 IF i # 0 /\ j > i THEN Sink(bufs[j], fls[j])
                 ELSE FlushBuf(Sink(bufs[j], fls[j]), IF j = i THEN 1 ELSE 0, k)]
    IN  [bufs |-> [j \in 1..Len(bufs) |-> r[j].buf],
         files |-> [j \in 1..Len(bufs) |-> r[j].file],
         ok |-> i = 0,
         met |-> i = 0 \/ r[i].hit]

-----------------------------------------------------------------------------
\* The inputs: up to MaxDocs complete documents, then nothing, or a
\* document cut short, or a document that does not decode.

EmptyDoc == <<5, 0, 0, 0, 0>>                   \* {}
NullDoc == <<8, 0, 0, 0, 10, 97, 0, 0>>         \* {"a": null}
Pool == {EmptyDoc, NullDoc}

BadLength == <<4, 0, 0, 0, 0>>                  \* declared length below 5
BadType == <<8, 0, 0, 0, 99, 97, 0, 0>>         \* no element type 99

Truncated == UNION {{Take(d, n) : n \in 1..(Len(d) - 1)} : d \in Pool}
Tails == {<<>>} \cup Truncated \cup {BadLength, BadType}

\* The readings of the clock, in milliseconds since the epoch.
Clock == {1, 2}

DocSeqs == UNION {[1..n -> Pool] : n \in 0..MaxDocs}
Given == [docs : DocSeqs, tail : Tails]

Init ==
    /\ split \in 0..MaxSplit
    /\ given \in Given
    /\ input = Flatten(given.docs) \o given.tail
    /\ opened = FALSE
    /\ pos = 0
    /\ files = <<>>
    /\ output = <<>>
    /\ prefix = ""
    /\ created = <<>>
    /\ paths = <<>>
    /\ cycle = 0
    /\ writes = 0
    /\ doc = <<>>
    /\ pc = "validate"
    /\ err = "none"
    /\ printed = <<>>
    /\ sinceFlush = 0
    /\ failedAt = 0
    /\ faults = {}

-----------------------------------------------------------------------------
\* Mutant of validate: nothing is checked.
validate_none(n) == TRUE

\* validate (main.rs:23-28): split is accepted.
validate(n) == ~(n < 1)

\* Mutant of NextCycle: the index does not wrap around.
NextCycle_no_wrap(c, n) == c + 1

\* Mutant of NextCycle: the index does not advance.
NextCycle_stuck(c, n) == c

\* (0..output.len()).cycle() (main.rs:92, 97): the index that follows c
\* among n sinks.
NextCycle(c, n) == (c + 1) % n

\* Mutant of ShouldFlush: the loop never flushes.
ShouldFlush_never(w) == FALSE

\* Mutant of ShouldFlush: the period is counted from the first write.
ShouldFlush_off_by_one(w) == w % AUTO_FLUSH = 1

\* writes % AUTO_FLUSH == 0 (main.rs:103).
ShouldFlush(w) == w % AUTO_FLUSH = 0

\* Mutant of DropFlush: the process ends without running the destructors.
DropFlush_none(st, n, k) == [st EXCEPT !.buf = <<>>]

\* Drop of a BufWriter (of the Vec made at main.rs:87-90, dropped when main
\* returns): the buffer is flushed and the result ignored.
DropFlush(st, n, k) == FlushBuf(st, n, k)

\* Mutant of Filename: the clock is read again for every name, and has
\* moved on.
Filename_fresh_time(p, t, i) ==
    [prefix |-> p, runtime |-> t + (i - 1), index |-> i, ext |-> "bson"]

\* format!("{}-{}-{}.bson", prefix, runtime, i) (main.rs:55).
Filename(p, t, i) == [prefix |-> p, runtime |-> t, index |-> i, ext |-> "bson"]

\* Mutant of FileIndices: the range leaves out its end.
FileIndices_exclusive(n) == 1..(n - 1)

\* for i in 1..=split (main.rs:54).
FileIndices(n) == 1..n

\* Mutant of create_files: the files already created are removed when a
\* File::create fails.
create_files_cleanup(p, n, clockOk, t, failAt) ==
    IF ~clockOk \/ failAt # 0 THEN [ok |-> FALSE, created |-> <<>>, paths |-> <<>>]
    ELSE LET names == [i \in 1..Cardinality(FileIndices(n)) |-> Filename(p, t, i)]
         IN  [ok |-> TRUE, created |-> names, paths |-> names]

\* create_files (main.rs:46-61). The time is read once, before the loop; each
\* name is pushed before its file is created; the first File::create that
\* fails ends the call, the files created before it stay and the Vecs are
\* dropped. created: the names of the files now on disk; paths: the names
\* returned.
create_files(p, n, clockOk, t, failAt) ==
    IF ~clockOk THEN [ok |-> FALSE, created |-> <<>>, paths |-> <<>>]
    ELSE LET last == IF failAt = 0 THEN Cardinality(FileIndices(n)) ELSE failAt - 1
             names == [i \in 1..last |-> Filename(p, t, i)]
         IN  [ok |-> failAt = 0, created |-> names,
              paths |-> IF failAt = 0 THEN names ELSE <<>>]

\* main(), statement by statement. An error returned with `?` takes main to
\* "unwind", where its locals are dropped, and from there to "done".

\* validate(&opt) (main.rs:72): clap's exit() ends the process there.
Validate ==
    /\ pc = "validate"
    /\ IF ~validate(split)
       THEN /\ err' = "split must be at least 1"
            /\ pc' = "exit"
       ELSE /\ err' = err
            /\ pc' = "open"
    /\ UNCHANGED <<split, input, opened, pos, files, output, prefix, created,
                   paths, cycle, writes, doc, printed, sinceFlush, given, failedAt,
                   faults>>

\* File::open(opt.path) (main.rs:74-75).
OpenInput ==
    /\ pc = "open"
    /\ \E ok \in BOOLEAN :
          IF ok
          THEN /\ opened' = TRUE
               /\ err' = err
               /\ faults' = faults
               /\ pc' = "prefix"
          ELSE /\ opened' = opened
               /\ err' = "Failed to open file"
               /\ faults' = faults \cup {"open"}
               /\ pc' = "unwind"
    /\ UNCHANGED <<split, input, pos, files, output, prefix, created, paths,
                   cycle, writes, doc, printed, sinceFlush, given, failedAt>>

\* Mutant of DerivePrefix: a path without a usable stem gets a default
\* prefix and main goes on.
DerivePrefix_default ==
    /\ pc = "prefix"
    /\ \E r \in {"ok", "Unable to extract prefix", "Unable to read file path"} :
          /\ prefix' = IF r = "ok" THEN "dump" ELSE "out"
          /\ faults' = IF r = "ok" THEN faults ELSE faults \cup {"path"}
    /\ pc' = "create"
    /\ UNCHANGED <<split, input, opened, pos, files, output, created, paths,
                   cycle, writes, doc, err, printed, sinceFlush, given, failedAt>>

\* opt.path.file_stem() ... .to_str() (main.rs:77-82).
DerivePrefix ==
    /\ pc = "prefix"
    /\ \E r \in {"ok", "Unable to extract prefix", "Unable to read file path"} :
          IF r = "ok"
          THEN /\ prefix' = "dump"
               /\ err' = err
               /\ faults' = faults
               /\ pc' = "create"
          ELSE /\ prefix' = prefix
               /\ err' = r
               /\ faults' = faults \cup {"path"}
               /\ pc' = "unwind"
    /\ UNCHANGED <<split, input, opened, pos, files, output, created, paths,
                   cycle, writes, doc, printed, sinceFlush, given, failedAt>>

\* create_files(prefix, opt.split)? and the locals set up after it
\* (main.rs:84-93). clockOk: the system time is not before the epoch; t: the
\* milliseconds it reads; failAt = i in 1..split: File::create fails for the
\* i-th file; failAt = 0: all are created.
CreateFiles ==
    /\ pc = "create"
    /\ \E clockOk \in BOOLEAN, t \in Clock, failAt \in 0..split :
          LET r == create_files(prefix, split, clockOk, t, failAt)
          IN  /\ created' = r.created
              /\ failedAt' = IF clockOk THEN failAt ELSE 0
              /\ files' = [i \in 1..Len(r.created) |-> <<>>]
              /\ IF r.ok
                 THEN /\ paths' = r.paths
                      /\ output' = [i \in 1..Len(r.created) |-> <<>>]
                      /\ cycle' = 0
                      /\ writes' = 0
                      /\ err' = err
                      /\ faults' = faults
                      /\ pc' = "decode"
                 ELSE /\ err' = "Failed to create output files"
                      /\ faults' = faults \cup {IF clockOk THEN "create" ELSE "clock"}
                      /\ pc' = "unwind"
                      /\ UNCHANGED <<paths, output, cycle, writes>>
    /\ UNCHANGED <<split, input, opened, pos, prefix, doc, printed, sinceFlush,
                   given>>

\* process_doc(Document::from_reader(&mut f))? (main.rs:96, 106-108).
Decode ==
    /\ pc = "decode"
    /\ \E ioError \in BOOLEAN :
          LET r == FromReader(input, pos)
              o == process_doc(r, ioError)
          IN  /\ pos' = IF ioError THEN pos ELSE r.pos
              /\ doc' = IF o = "doc" THEN <<r.doc>> ELSE <<>>
              /\ err' = IF o \in {"doc", "none"} THEN err ELSE o
              /\ pc' = IF o = "doc" THEN "write"
                       ELSE IF o = "none" THEN "final_flush"
                       ELSE "unwind"
              /\ faults' = IF ioError THEN faults \cup {"read"} ELSE faults
    /\ UNCHANGED <<split, input, opened, files, output, prefix, created, paths,
                   cycle, writes, printed, sinceFlush, given, failedAt>>

\* cycle.next(), doc.to_writer(&mut buf)?, writes += 1 and the test of
\* writes % AUTO_FLUSH (main.rs:97-103).
Write ==
    /\ pc = "write"
    /\ \E n \in 0..6, k \in 0..MaxShort :
          LET i == cycle + 1
              r == to_writer(Sink(output[i], files[i]), doc[1], n, k)
          IN  /\ Met(r, n)
              /\ cycle' = NextCycle(cycle, Len(output))
              /\ output' = [output EXCEPT ![i] = r.buf]
              /\ files' = [files EXCEPT ![i] = r.file]
              /\ faults' = IF r.ok THEN faults ELSE faults \cup {"write"}
              /\ IF r.ok
                 THEN /\ writes' = writes + 1
                      /\ sinceFlush' = sinceFlush + 1
                      /\ err' = err
                      /\ pc' = IF ShouldFlush(writes + 1)
                               THEN "auto_flush" ELSE "decode"
                 ELSE /\ writes' = writes
                      /\ sinceFlush' = sinceFlush
                      /\ err' = "Failed to write document"
                      /\ pc' = "unwind"
    /\ doc' = <<>>
    /\ UNCHANGED <<split, input, opened, pos, prefix, created, paths, printed,
                   given, failedAt>>

\* flush_all(&mut output)? inside the loop (main.rs:103-105).
AutoFlush ==
    /\ pc = "auto_flush"
    /\ \E i \in 0..Len(output), k \in 0..MaxShort :
          LET r == flush_all(output, files, i, k)
          IN  /\ r.met
              /\ output' = r.bufs
              /\ files' = r.files
              /\ faults' = IF r.ok THEN faults ELSE faults \cup {"write"}
              /\ err' = IF r.ok THEN err ELSE "Failed to flush"
              /\ sinceFlush' = IF r.ok THEN 0 ELSE sinceFlush
              /\ pc' = IF r.ok THEN "decode" ELSE "unwind"
    /\ UNCHANGED <<split, input, opened, pos, prefix, created, paths, cycle,
                   writes, doc, printed, given, failedAt>>

\* Mutant of FinalFlush: the paths are printed before the final flush.
FinalFlush_print_first ==
    /\ pc = "final_flush"
    /\ \E i \in 0..Len(output), k \in 0..MaxShort :
          LET r == flush_all(output, files, i, k)
          IN  /\ r.met
              /\ output' = r.bufs
              /\ files' = r.files
              /\ faults' = IF r.ok THEN faults ELSE faults \cup {"write"}
              /\ err' = IF r.ok THEN err ELSE "Failed to flush"
              /\ sinceFlush' = IF r.ok THEN 0 ELSE sinceFlush
              /\ pc' = IF r.ok THEN "print" ELSE "unwind"
    /\ printed' = paths
    /\ UNCHANGED <<split, input, opened, pos, prefix, created, paths, cycle,
                   writes, doc, given, failedAt>>

\* flush_all(&mut output)? after the loop (main.rs:111).
FinalFlush ==
    /\ pc = "final_flush"
    /\ \E i \in 0..Len(output), k \in 0..MaxShort :
          LET r == flush_all(output, files, i, k)
          IN  /\ r.met
              /\ output' = r.bufs
              /\ files' = r.files
              /\ faults' = IF r.ok THEN faults ELSE faults \cup {"write"}
              /\ err' = IF r.ok THEN err ELSE "Failed to flush"
              /\ sinceFlush' = IF r.ok THEN 0 ELSE sinceFlush
              /\ pc' = IF r.ok THEN "print" ELSE "unwind"
    /\ UNCHANGED <<split, input, opened, pos, prefix, created, paths, cycle,
                   writes, doc, printed, given, failedAt>>

\* paths.iter().for_each(println) and Ok(()) (main.rs:112-114).
PrintPaths ==
    /\ pc = "print"
    /\ printed' = paths
    /\ pc' = "unwind"
    /\ UNCHANGED <<split, input, opened, pos, files, output, prefix, created,
                   paths, cycle, writes, doc, err, sinceFlush, given, failedAt,
                   faults>>

\* main returns: its locals are dropped. Dropping a BufWriter flushes its
\* buffer and ignores the result (main.rs:87-90 creates them); f[j] = -1:
\* the flush of sink j succeeds, f[j] = k >= 0: it fails after k bytes and
\* the rest of the buffer is lost.
Unwind ==
    /\ pc = "unwind"
    /\ \E f \in [1..Len(output) -> -1..MaxShort] :
          LET r == [j \in 1..Len(output) |->
                       DropFlush(Sink(output[j], files[j]),
                                 IF f[j] >= 0 THEN 1 ELSE 0, f[j])]
          IN  /\ \A j \in 1..Len(output) : Met(r[j], IF f[j] >= 0 THEN 1 ELSE 0)
              /\ files' = [j \in 1..Len(files) |->
                              IF j <= Len(output) THEN r[j].file ELSE files[j]]
              /\ faults' = IF \E j \in 1..Len(output) : ~r[j].ok
                            THEN faults \cup {"write"} ELSE faults
    /\ output' = <<>>
    /\ pc' = "done"
    /\ UNCHANGED <<split, input, opened, pos, prefix, created, paths, cycle,
                   writes, doc, err, printed, sinceFlush, given, failedAt>>

Next ==
    \/ Validate
    \/ OpenInput
    \/ DerivePrefix
    \/ CreateFiles
    \/ Decode
    \/ Write
    \/ AutoFlush
    \/ FinalFlush
    \/ PrintPaths
    \/ Unwind

Spec == Init /\ [][Next]_vars

\* main runs to its end: no statement of it waits for anything.
FairSpec == Spec /\ WF_vars(Next)

Terminated == pc \in {"exit", "done"}
Succeeded == pc = "done" /\ err = "none"

-----------------------------------------------------------------------------
\* What the claims speak of.

\* The number of complete documents at the head of the input.
D == Len(given.docs)

\* The documents among the first w of ds that round-robin over n sinks gives
\* to sink j (1 <= j <= n): those at positions j, j + n, j + 2n, ...
ShareOf(ds, j, n, w) ==
    [m \in 1..(IF w < j THEN 0 ELSE (w - j) \div n + 1) |-> ds[(m - 1) * n + j]]

\* The bytes sink j holds once the first w documents of the input are written.
Expected(j, w) == Flatten(ShareOf(given.docs, j, split, w))

\* The bytes of the first w documents of the input.
Consumed(w) == Len(Flatten(Take(given.docs, w)))

\* The documents a reader decodes from the bytes s, from offset p on.
RECURSIVE DecodeAll(_, _)
DecodeAll(s, p) ==
    LET r == FromReader(s, p)
    IN  IF r.kind = "Ok" THEN <<r.doc>> \o DecodeAll(s, r.pos) ELSE <<>>

\* s is complete documents back to back and nothing else.
RECURSIVE WholeDocs(_, _)
WholeDocs(s, p) ==
    \/ p = Len(s)
    \/ LET r == FromReader(s, p) IN r.kind = "Ok" /\ WholeDocs(s, r.pos)

RECURSIVE SumDocs(_)
SumDocs(fs) ==
    IF fs = <<>> THEN 0 ELSE Len(DecodeAll(Head(fs), 0)) + SumDocs(Tail(fs))

\* C1: while the sinks are written and no write to a file has failed, sink j
\* (file followed by buffer) holds exactly the documents at the positions i
\* with (i-1) mod N = j-1 among those written so far, in input order; after a
\* successful run over D complete documents the file of sink j holds exactly
\* its share of all D.
C1_RoundRobin ==
    /\ (output # <<>> /\ "write" \notin faults) =>
          \A j \in 1..split : files[j] \o output[j] = Expected(j, writes)
    /\ (Succeeded /\ given.tail = <<>>) =>
          /\ writes = D
          /\ \A j \in 1..split : files[j] = Expected(j, D)

C1_Witness ==
    /\ Succeeded /\ given.tail = <<>>
    /\ split = 2 /\ D >= 3
    /\ given.docs[1] # given.docs[2]

\* C2: an input that ends with a partial document makes the run end with a
\* failure result.
C2_TruncatedFails ==
    (Terminated /\ given.tail \in Truncated) => err # "none"

\* C3: on an input of complete documents and nothing more, with split >= 1,
\* the run eventually ends, and it ends with success unless the environment
\* failed an operation: the end of input is not an error.
C3_CleanEofSucceeds ==
    (given.tail = <<>> /\ split >= 1) =>
        <>(Terminated /\ (faults = {} => err = "none"))

C3_Witness ==
    /\ Succeeded /\ given.tail = <<>>
    /\ D >= 1 /\ pos = Len(input) /\ printed = paths

\* C4: after a successful run over D complete documents the files are
\* complete documents back to back and hold D documents in all.
C4_CountPreserved ==
    (Succeeded /\ given.tail = <<>>) =>
        /\ \A j \in 1..split : WholeDocs(files[j], 0)
        /\ SumDocs(files) = D

C4_Witness ==
    /\ Succeeded /\ given.tail = <<>>
    /\ D = 3 /\ split = 2 /\ SumDocs(files) = 3

\* C5 as claimed: however the run ends, every output file is complete
\* documents back to back.
C5_NeverPartial ==
    Terminated => \A j \in 1..Len(files) : WholeDocs(files[j], 0)

\* C5 as amended: at the end of a run in which no write to an output file
\* failed, every output file holds exactly the complete documents written to
\* its sink; in every run it holds a prefix of the complete input documents
\* of its sink, so no byte of a partial input document is ever in it.
C5_PartialOnlyAfterWriteFault ==
    Terminated =>
        \A j \in 1..Len(files) :
            /\ IsPrefix(files[j], Expected(j, D))
            /\ "write" \notin faults =>
                  /\ files[j] = Expected(j, writes)
                  /\ WholeDocs(files[j], 0)

C5_Witness ==
    /\ Terminated /\ given.tail \in Truncated /\ "write" \notin faults
    /\ Len(files) = 2 /\ files[2] # <<>>

\* C6: with split = 0 the run ends in validate with the configuration error:
\* the input is never opened, no output file is created, nothing is decoded.
C6_ZeroRejected ==
    split = 0 =>
        /\ pc \in {"validate", "exit"}
        /\ pc = "exit" => err = "split must be at least 1"
        /\ ~opened /\ files = <<>> /\ output = <<>> /\ paths = <<>>
        /\ pos = 0 /\ doc = <<>> /\ writes = 0 /\ printed = <<>>

C6_Witness == split = 0 /\ pc = "exit"

\* C7: when writes is a positive multiple of AUTO_FLUSH and some sink still
\* holds unflushed bytes, main is at the flush (or leaving with the error of
\* that flush) and has decoded nothing since the write.
C7_FlushBeforeNextDoc ==
    (writes > 0 /\ writes % AUTO_FLUSH = 0
        /\ \E j \in 1..Len(output) : output[j] # <<>>) =>
        /\ pc = "auto_flush" \/ (pc = "unwind" /\ err = "Failed to flush")
        /\ pos = Consumed(writes)
        /\ doc = <<>>

C7_Witness ==
    /\ pc = "decode" /\ writes = AUTO_FLUSH
    /\ \A j \in 1..Len(output) : output[j] = <<>> /\ files[j] # <<>>

\* C8: when main is about to return success, or has, no sink holds unflushed
\* bytes and every file holds all that was written to its sink.
C8_FinalFlush ==
    (err = "none" /\ pc \in {"print", "unwind", "done"}) =>
        /\ \A j \in 1..Len(output) : output[j] = <<>>
        /\ \A j \in 1..split : files[j] = Expected(j, writes)

C8_Witness ==
    /\ err = "none" /\ pc = "print"
    /\ writes > 0 /\ writes % AUTO_FLUSH # 0

C10_Aborted ==
    "write" \in faults =>
        /\ pc \in {"unwind", "done"}
        /\ err # "none"
        /\ printed = <<>>
        /\ pc = "unwind" => err \in {"Failed to write document", "Failed to flush"}

C10_WriteFailureAborts ==
    /\ []C10_Aborted
    /\ [][("write" \in faults) =>
            (pos' = pos /\ writes' = writes /\ err' = err /\ printed' = printed)]_vars

C10_Witness ==
    /\ pc = "done" /\ err = "Failed to flush"
    /\ pos < Len(input)

\* main is inside the loop or between the loop and its return of Ok(()).
InLoop == pc \in {"decode", "write", "auto_flush", "final_flush", "print"}

\* C11: once create_files has succeeded, exactly split output files exist;
\* the i-th created is named by the prefix, the index i and a reading of the
\* clock that is the same in all the names; main holds these names in
\* creation order, and a successful run has printed exactly them, in that
\* order.
C11_NamesAndReport ==
    /\ (InLoop \/ Succeeded) =>
          /\ Len(created) = split /\ Len(files) = split
          /\ paths = created
          /\ \E t \in Clock :
                \A i \in 1..split :
                    created[i] = [prefix |-> prefix, runtime |-> t,
                                  index |-> i, ext |-> "bson"]
    /\ Succeeded => printed = created /\ Len(printed) = split

C11_Witness ==
    /\ Succeeded /\ split = 2
    /\ printed[1].index = 1 /\ printed[2].index = 2
    /\ printed[1].runtime = 2 /\ printed[2].runtime = 2

\* C12: on an input of D complete documents with D < split (D = 0
\* included), all split files are created, the run ends without error unless
\* the environment failed an operation, a successful run reports all split
\* names, its first D files hold one document each, and the sinks after the
\* D-th never receive a byte.
C12_FewerDocsThanSinks ==
    (given.tail = <<>> /\ D < split) =>
        /\ (InLoop \/ Succeeded) => Len(created) = split /\ Len(files) = split
        /\ \A j \in (D + 1)..Len(files) : files[j] = <<>>
        /\ \A j \in (D + 1)..Len(output) : output[j] = <<>>
        /\ (Terminated /\ faults = {}) => err = "none"
        /\ Succeeded =>
              /\ printed = created /\ Len(printed) = split
              /\ \A j \in 1..D : files[j] = given.docs[j]

C12_Witness ==
    /\ Succeeded /\ given.tail = <<>>
    /\ D = 1 /\ split = 2
    /\ files[1] # <<>> /\ files[2] = <<>> /\ Len(printed) = 2

\* C13: once File::create has failed for the k-th file, main only leaves with
\* "Failed to create output files": nothing is decoded, written or printed,
\* no BufWriter exists, the files k+1..split are never created, and the k-1
\* files created before stay on disk under their names, empty.
C13_CreateFailureAborts ==
    failedAt # 0 =>
        /\ failedAt \in 1..split
        /\ pc \in {"unwind", "done"}
        /\ err = "Failed to create output files"
        /\ pos = 0 /\ doc = <<>> /\ writes = 0
        /\ output = <<>> /\ paths = <<>> /\ printed = <<>>
        /\ Len(created) = failedAt - 1 /\ Len(files) = failedAt - 1
        /\ \A i \in 1..Len(created) :
              /\ created[i].index = i /\ created[i].prefix = prefix
              /\ files[i] = <<>>

C13_Witness ==
    /\ pc = "done" /\ failedAt = 2
    /\ Len(created) = 1 /\ files = <<<<>>>>

\* C14: the document writes since the last flush of all sinks (since the
\* start, if there was none) are never more than AUTO_FLUSH, and, while no
\* write to a file has failed, the bytes the BufWriters hold are at most the
\* bytes of the documents of that last batch.
C14_BatchBounded ==
    /\ sinceFlush <= AUTO_FLUSH
    /\ sinceFlush <= writes
    /\ "write" \notin faults =>
          Len(Flatten(output)) <= Consumed(writes) - Consumed(writes - sinceFlush)

C14_Witness ==
    /\ pc = "decode" /\ writes = AUTO_FLUSH + 1 /\ sinceFlush = 1
    /\ Len(Flatten(output)) > 0

\* The number of documents sink j (1 <= j <= split) holds, file and buffer.
Count(j) == Len(DecodeAll(files[j] \o output[j], 0))

\* C15: while main is in the loop, with w = writes, the sink at 0-based
\* index j holds ceil((w - j) / N) documents and nothing else, the next sink
\* is w mod N, within 0..N-1; so the counts of two sinks differ by at most
\* one and no sink holds fewer documents than the one after it.
C15_Balanced ==
    InLoop =>
        /\ cycle = writes % split /\ cycle \in 0..(split - 1)
        /\ \A j \in 1..split :
              /\ WholeDocs(files[j] \o output[j], 0)
              /\ Count(j) = (writes - (j - 1) + split - 1) \div split
        /\ \A j, k \in 1..split : Count(j) - Count(k) \in {-1, 0, 1}
        /\ \A j \in 1..(split - 1) : Count(j) >= Count(j + 1)

C15_Witness ==
    /\ InLoop /\ split = 2 /\ writes = 3 /\ cycle = 1
    /\ Count(1) = 2 /\ Count(2) = 1

\* C16: whatever has been printed was printed by a run that returns success,
\* after the final flush: it is the list of paths, no operation has failed,
\* no BufWriter holds a byte and every file holds all that was written to
\* its sink. A run that ends with an error has printed nothing.
C16_PrintOnlyOnSuccess ==
    /\ err # "none" => printed = <<>>
    /\ ~(pc \in {"unwind", "done"}) => printed = <<>>
    /\ printed # <<>> =>
          /\ err = "none" /\ faults = {}
          /\ printed = paths /\ Len(printed) = split
          /\ \A j \in 1..Len(output) : output[j] = <<>>
          /\ \A j \in 1..split : files[j] = Expected(j, writes)

C16_Witness ==
    /\ pc = "unwind" /\ err = "none"
    /\ Len(printed) = 2 /\ writes = 3

\* C17: the setup runs in the order validate, open, prefix, create: the
\* input is opened before the prefix is derived and the prefix is derived
\* before any output file is created, so a run in which the input cannot be
\* opened or no prefix can be derived leaves with that error and creates no
\* output file.
C17_SetupOrder ==
    /\ pc \in {"validate", "exit"} => ~opened
    /\ ~opened => prefix = ""
    /\ prefix = "" => created = <<>> /\ files = <<>> /\ failedAt = 0
    /\ pc = "open" => ~opened /\ validate(split)
    /\ pc = "prefix" => opened /\ prefix = ""
    /\ pc = "create" => opened /\ prefix # "" /\ created = <<>>
    /\ "open" \in faults =>
          /\ ~opened /\ err = "Failed to open file"
          /\ pc \in {"unwind", "done"}
    /\ "path" \in faults =>
          /\ opened /\ prefix = ""
          /\ err \in {"Unable to extract prefix", "Unable to read file path"}
          /\ pc \in {"unwind", "done"}

C17_Witness ==
    /\ pc = "done" /\ err = "Unable to extract prefix"
    /\ opened /\ split = 2 /\ created = <<>> /\ files = <<>>

====
